---- MODULE Spec2Model ----
(***************************************************************************)
(* A model of a2/code/student_code.py: the custom 2D convolution operator  *)
(* (CustomConv2DFunction.forward / backward, built on unfold and fold),    *)
(* the layer wrapper CustomConv2d, and the PGD attack (PGDAttack.perturb)  *)
(* together with the SimpleNet.forward that embeds it.                     *)
(*                                                                         *)
(* Tensors are records [shape, data]: shape is the tuple of dimensions and *)
(* data the row-major (contiguous) storage, indexed from 0.                *)
(***************************************************************************)
EXTENDS Integers, Sequences, FiniteSets, TLC

VARIABLES
    pc,           \* position of the convolution call: "call", "returned", "AssertionError", "AttributeError", "RuntimeError", "done"
    input_feats,  \* argument of forward: tensor (N, C_i, H, W)
    weight,       \* argument of forward: tensor (C_o, C_w, K1, K2)
    bias,         \* argument of forward: tensor (C_o) or None
    stride,       \* argument of forward: a Python number, [type, v]
    padding,      \* argument of forward: a Python number, [type, v]
    ctx,          \* the autograd context of this invocation
    output,       \* value returned by forward, None before / on failure
    grad_output,  \* upstream gradient handed to backward, None before
    grads,        \* the 5-tuple returned by backward, None before
    calls,        \* two invocations of one CustomConv2d layer and their contexts
    model,        \* the attacked network: [kind, training, param_grad]
    input,        \* the caller's image tensor: [val, requires_grad, is_leaf, grad]
    attack,       \* the caller's PGDAttack object: [num_steps, step_size, epsilon]
    entry,        \* what the caller invokes: "perturb" or "forward"
    stack,        \* the Python call stack of perturb / forward frames, innermost last
    status,       \* "idle", "running", "returned" or the exception raised
    result,       \* the tensor returned by a direct perturb call, None otherwise
    before,       \* model and input as they were when the call was made
    evals,        \* number of model evaluations made by the outermost perturb
    attacks       \* number of attacks started from inside the model's forward

convVars == <<pc, input_feats, weight, bias, stride, padding, ctx, output, grad_output, grads, calls>>
pgdVars == <<model, input, attack, entry, stack, status, result, before, evals, attacks>>
vars == <<convVars, pgdVars>>

\* Python's None
None == <<>>

\* Python numbers as passed for stride and padding: an int, or a float of the same value
PyInt(n) == [type |-> "int", v |-> n]
PyFloat(n) == [type |-> "float", v |-> n]

--------------------------------------------------------------------------
\* Bounds of the model

\* largest input height / width
MaxHW == 2
\* largest kernel side
MaxK == 2
\* largest stride
MaxStride == 2
\* largest padding
MaxPad == 1

\* batch sizes and channel counts of the explored calls
BatchSizes == {1, 2}
ChannelCounts == {1, 2}
\* seeds of the pseudo-random tensor contents
Seeds == {0, 1}

--------------------------------------------------------------------------
\* Tensor helpers

RECURSIVE SumTo(_, _)
\* sum of f[0] .. f[n-1]
SumTo(f, n) == IF n <= 0 THEN 0 ELSE f[n - 1] + SumTo(f, n - 1)

RECURSIVE Prod(_)
\* torch.Size.numel: product of the dimensions
Prod(s) == IF Len(s) = 0 THEN 1 ELSE Head(s) * Prod(Tail(s))

\* contents of a test tensor: small signed integers, different at neighbouring indices
Val(seed, salt, i) == (((i + 1) * (i + salt) + (seed + 1) * (2 * i + 3) + salt) % 5) - 2

\* a contiguous tensor of the given shape
MkTensor(shape, seed, salt) ==
    [shape |-> shape, data |-> [i \in 0..(Prod(shape) - 1) |-> Val(seed, salt, i)]]

\* a tensor of ones
Ones(shape) == [shape |-> shape, data |-> [i \in 0..(Prod(shape) - 1) |-> 1]]

\* Tensor.size(d), d counted from 0
size(t, d) == t.shape[d + 1]

\* element [n, c, h, w] of a contiguous rank-4 tensor
At4(t, n, c, h, w) ==
    t.data[((n * size(t, 1) + c) * size(t, 2) + h) * size(t, 3) + w]

\* element [n, c, h, w] of the zero-padded rank-4 tensor, h and w in input coordinates
Padded(t, n, c, h, w) ==
    IF h \in 0..(size(t, 2) - 1) /\ w \in 0..(size(t, 3) - 1) THEN At4(t, n, c, h, w) ELSE 0

\* Tensor.view(shape): the same storage under another shape
view(t, shape) == [shape |-> shape, data |-> t.data]

--------------------------------------------------------------------------
\* torch.nn.functional.unfold / fold

\* number of sliding-block positions along one dimension
BlockCount(len, K, p, s) == ((len + 2 * p - K) \div s) + 1

\* unfold(input, kernel_size, padding, stride): (N, C, H, W) -> (N, C*K*K, L).
\* Row c*K*K + a*K + b of block u*W_o + v holds the padded input at
\* [n, c, u*s + a - p, v*s + b - p].
unfold_colmajor(x, K, p, s) ==
    LET N == size(x, 0)
        C == size(x, 1)
        Ho == BlockCount(size(x, 2), K, p, s)
        Wo == BlockCount(size(x, 3), K, p, s)
        L == Ho * Wo
        CKK == C * K * K
    IN  [shape |-> <<N, CKK, L>>,
         data |-> [i \in 0..(N * CKK * L - 1) |->
            LET n == i \div (CKK * L)
                ck == (i \div L) % CKK
                l == i % L
                c == ck \div (K * K)
                a == (ck \div K) % K
                b == ck % K
                u == l % Ho
                v == l \div Ho
            IN  Padded(x, n, c, u * s + a - p, v * s + b - p)]]

unfold(x, K, p, s) ==
    LET N == size(x, 0)
        C == size(x, 1)
        Ho == BlockCount(size(x, 2), K, p, s)
        Wo == BlockCount(size(x, 3), K, p, s)
        L == Ho * Wo
        CKK == C * K * K
    IN  [shape |-> <<N, CKK, L>>,
         data |-> [i \in 0..(N * CKK * L - 1) |->
            LET n == i \div (CKK * L)
                ck == (i \div L) % CKK
                l == i % L
                c == ck \div (K * K)
                a == (ck \div K) % K
                b == ck % K
                u == l \div Wo
                v == l % Wo
            IN  Padded(x, n, c, u * s + a - p, v * s + b - p)]]

--------------------------------------------------------------------------
\* CustomConv2DFunction.forward

\* isinstance(v, int)
IsInt(v) == v.type = "int"

\* the context before forward has stored anything in it
EmptyCtx ==
    [batch_size |-> None, stride |-> None, padding |-> None,
     input_height |-> None, input_width |-> None,
     saved_tensors |-> None, needs_input_grad |-> None]

\* the four sanity checks on the arguments
SanityCheck(x, w, s, p) ==
    /\ size(w, 2) = size(w, 3)
    /\ size(x, 1) = size(w, 1)
    /\ IsInt(s) /\ s.v > 0
    /\ IsInt(p) /\ p.v >= 0

\* "make sure this is a valid convolution"
ValidConv_heightTwice(x, K, p) ==
    /\ K <= size(x, 2) + 2 * p
    /\ K <= size(x, 2) + 2 * p

ValidConv(x, K, p) ==
    /\ K <= size(x, 2) + 2 * p
    /\ K <= size(x, 3) + 2 * p

\* H_o, W_o = 1 + int((len + 2*padding - kernel_size) // stride)
OutSize_noPadding(len, K, p, s) == 1 + ((len - K) \div s)

OutSize(len, K, p, s) == 1 + ((len + 2 * p - K) \div s)

\* torch.einsum('ncw,oc->now', windows, kernels): (N, CKK, L) x (C_o, CKK) -> (N, C_o, L)
einsum_ncw_oc(windows, kernels) ==
    LET N == windows.shape[1]
        CKK == windows.shape[2]
        L == windows.shape[3]
        Co == kernels.shape[1]
    IN  [shape |-> <<N, Co, L>>,
         data |-> [i \in 0..(N * Co * L - 1) |->
            LET n == i \div (Co * L)
                o == (i \div L) % Co
                l == i % L
            IN  SumTo([c \in 0..(CKK - 1) |->
                          windows.data[(n * CKK + c) * L + l] * kernels.data[o * CKK + c]],
                      CKK)]]

\* t + bias.view(1,-1,1,1).expand(batch_size,-1,H_o,W_o)
AddBias(t, b, batch_size, Ho, Wo) ==
    [shape |-> t.shape,
     data |-> [i \in DOMAIN t.data |-> t.data[i] + b.data[(i \div (Ho * Wo)) % size(b, 0)]]]

\* the body of forward once the arguments are accepted (the "fill in" part)
Convolve(c, x, w, b, s, p) ==
    LET K == size(w, 2)
        Co == size(w, 0)
        Ci == size(w, 1)
        Ho == OutSize(c.input_height, K, p, s)
        Wo == OutSize(c.input_width, K, p, s)
    IN  IF BlockCount(size(x, 2), K, p, s) <= 0 \/ BlockCount(size(x, 3), K, p, s) <= 0
        THEN \* unfold refuses an empty array of sliding blocks
             [status |-> "RuntimeError", ctx |-> c, output |-> None]
        ELSE
        LET windows == unfold(x, K, p, s)
            kernels == view(w, <<Co, Ci * K * K>>)
            prod == einsum_ncw_oc(windows, kernels)
            numel == Prod(prod.shape)
            rest == Co * Ho * Wo
        IN  IF rest <= 0 \/ numel % rest # 0
            THEN \* view(-1, C_o, H_o, W_o) does not fit the number of elements
                 [status |-> "RuntimeError", ctx |-> c, output |-> None]
            ELSE IF b = None
            THEN \* None has no attribute view
                 [status |-> "AttributeError", ctx |-> c, output |-> None]
            ELSE [status |-> "returned",
                  ctx |-> [c EXCEPT !.saved_tensors = <<windows, w, b>>],
                  output |-> AddBias(view(prod, <<numel \div rest, Co, Ho, Wo>>),
                                     b, c.batch_size, Ho, Wo)]

\* forward(ctx, input_feats, weight, bias, stride, padding)
forward(c, x, w, b, s, p) ==
    IF ~SanityCheck(x, w, s, p)
    THEN [status |-> "AssertionError", ctx |-> c, output |-> None]
    ELSE LET K == size(w, 2)
             c1 == [c EXCEPT !.batch_size = size(x, 0), !.stride = s.v, !.padding = p.v,
                             !.input_height = size(x, 2), !.input_width = size(x, 3)]
         IN  IF ~ValidConv(x, K, p.v)
             THEN [status |-> "AssertionError", ctx |-> c1, output |-> None]
             ELSE Convolve(c1, x, w, b, s.v, p.v)

--------------------------------------------------------------------------
\* CustomConv2DFunction.backward

\* fold(cols, (H, W), kernel_size, padding, stride): (N, C*K*K, L) -> (N, C, H, W).
\* Every entry of every sliding block is added to the position of the padded
\* image it was taken from; the padding border is then dropped.
fold_overwrite(cols, H, W, K, p, s) ==
    LET N == cols.shape[1]
        CKK == cols.shape[2]
        L == cols.shape[3]
        C == CKK \div (K * K)
        Wo == BlockCount(W, K, p, s)
    IN  [shape |-> <<N, C, H, W>>,
         data |-> [i \in 0..(N * C * H * W - 1) |->
            LET n == i \div (C * H * W)
                c == (i \div (H * W)) % C
                h == (i \div W) % H
                w == i % W
                hits == {j \in 0..(K * K * L - 1) :
                            LET ab == j \div L
                                l == j % L
                            IN  /\ (l \div Wo) * s + (ab \div K) - p = h
                                /\ (l % Wo) * s + (ab % K) - p = w}
            IN  IF hits = {} THEN 0
                ELSE LET j == CHOOSE k \in hits : \A m \in hits : m <= k
                     IN  cols.data[(n * CKK + c * K * K + (j \div L)) * L + (j % L)]]]

fold(cols, H, W, K, p, s) ==
    LET N == cols.shape[1]
        CKK == cols.shape[2]
        L == cols.shape[3]
        C == CKK \div (K * K)
        Wo == BlockCount(W, K, p, s)
    IN  [shape |-> <<N, C, H, W>>,
         data |-> [i \in 0..(N * C * H * W - 1) |->
            LET n == i \div (C * H * W)
                c == (i \div (H * W)) % C
                h == (i \div W) % H
                w == i % W
            IN  SumTo([j \in 0..(K * K * L - 1) |->
                          LET ab == j \div L
                              l == j % L
                          IN  IF /\ (l \div Wo) * s + (ab \div K) - p = h
                                 /\ (l % Wo) * s + (ab % K) - p = w
                              THEN cols.data[(n * CKK + c * K * K + ab) * L + l]
                              ELSE 0],
                      K * K * L)]]

\* torch.einsum('nouv,oiab->niabuv', grad_output, weight):
\* (N, C_o, H_o, W_o) x (C_o, C_i, K, K) -> (N, C_i, K, K, H_o, W_o)
einsum_nouv_oiab(g, w) ==
    LET N == size(g, 0)
        Co == size(g, 1)
        Ho == size(g, 2)
        Wo == size(g, 3)
        Ci == size(w, 1)
        Ka == size(w, 2)
        Kb == size(w, 3)
    IN  [shape |-> <<N, Ci, Ka, Kb, Ho, Wo>>,
         data |-> [j \in 0..(N * Ci * Ka * Kb * Ho * Wo - 1) |->
            LET v == j % Wo
                u == (j \div Wo) % Ho
                b == (j \div (Wo * Ho)) % Kb
                a == (j \div (Wo * Ho * Kb)) % Ka
                i == (j \div (Wo * Ho * Kb * Ka)) % Ci
                n == j \div (Wo * Ho * Kb * Ka * Ci)
            IN  SumTo([o \in 0..(Co - 1) |-> At4(g, n, o, u, v) * At4(w, o, i, a, b)], Co)]]

\* torch.einsum('nouv,ncuv->oc', grad_output, windows4):
\* (N, C_o, H_o, W_o) x (N, CKK, H_o, W_o) -> (C_o, CKK)
einsum_nouv_ncuv(g, win) ==
    LET N == size(g, 0)
        Co == size(g, 1)
        Ho == size(g, 2)
        Wo == size(g, 3)
        CKK == size(win, 1)
    IN  [shape |-> <<Co, CKK>>,
         data |-> [j \in 0..(Co * CKK - 1) |->
            LET o == j \div CKK
                c == j % CKK
            IN  SumTo([k \in 0..(N * Ho * Wo - 1) |->
                          LET n == k \div (Ho * Wo)
                              u == (k \div Wo) % Ho
                              v == k % Wo
                          IN  At4(g, n, o, u, v) * At4(win, n, c, u, v)],
                      N * Ho * Wo)]]

\* grad_output.sum((0,2,3))
sum_023(g) ==
    LET N == size(g, 0)
        Co == size(g, 1)
        HW == size(g, 2) * size(g, 3)
    IN  [shape |-> <<Co>>,
         data |-> [o \in 0..(Co - 1) |->
            SumTo([k \in 0..(N * HW - 1) |-> g.data[((k \div HW) * Co + o) * HW + (k % HW)]],
                  N * HW)]]

\* backward(ctx, grad_output): (grad_input, grad_weight, grad_bias, None, None)
backward_allGrads(c, g) ==
    LET windows == c.saved_tensors[1]
        w == c.saved_tensors[2]
        b == c.saved_tensors[3]
        K == size(w, 2)
        Ci == size(w, 1)
        Co == size(g, 1)
        Ho == size(g, 2)
        Wo == size(g, 3)
    IN  << fold(view(einsum_nouv_oiab(g, w), <<c.batch_size, Ci * K * K, Ho * Wo>>),
                c.input_height, c.input_width, K, c.padding, c.stride),
           view(einsum_nouv_ncuv(g, view(windows, <<c.batch_size, Ci * K * K, Ho, Wo>>)),
                <<Co, Ci, K, K>>),
           IF b # None THEN sum_023(g) ELSE None,
           None, None >>

backward(c, g) ==
    LET windows == c.saved_tensors[1]
        w == c.saved_tensors[2]
        b == c.saved_tensors[3]
        K == size(w, 2)
        Ci == size(w, 1)
        Co == size(g, 1)
        Ho == size(g, 2)
        Wo == size(g, 3)
        grad_input ==
            IF c.needs_input_grad[1]
            THEN fold(view(einsum_nouv_oiab(g, w), <<c.batch_size, Ci * K * K, Ho * Wo>>),
                      c.input_height, c.input_width, K, c.padding, c.stride)
            ELSE None
        grad_weight ==
            IF c.needs_input_grad[2]
            THEN view(einsum_nouv_ncuv(g, view(windows, <<c.batch_size, Ci * K * K, Ho, Wo>>)),
                      <<Co, Ci, K, K>>)
            ELSE None
        grad_bias ==
            IF b # None /\ c.needs_input_grad[3] THEN sum_023(g) ELSE None
    IN  <<grad_input, grad_weight, grad_bias, None, None>>

--------------------------------------------------------------------------
\* CustomConv2d: the layer owns weight and (optionally) bias and calls custom_conv2d

\* CustomConv2d.__init__: the bias parameter is a tensor of out_channels elements, or None
LayerBias(out_channels, has_bias, seed) ==
    IF has_bias THEN MkTensor(<<out_channels>>, seed, 3) ELSE None

StrideValues == {PyInt(n) : n \in 0..MaxStride} \cup {PyFloat(1)}
PaddingValues == {PyInt(n) : n \in -1..MaxPad} \cup {PyFloat(1)}

\* a call custom_conv2d(input, weight, bias, stride, padding) about to be made
Init ==
    /\ pc = "call"
    /\ \E seed \in Seeds, N \in BatchSizes, Ci \in ChannelCounts, H \in 1..MaxHW, W \in 1..MaxHW,
          Co \in ChannelCounts, Cw \in ChannelCounts, K1 \in 1..MaxK, K2 \in 1..MaxK,
          has_bias \in BOOLEAN :
            /\ input_feats = MkTensor(<<N, Ci, H, W>>, seed, 1)
            /\ weight = MkTensor(<<Co, Cw, K1, K2>>, seed, 2)
            /\ bias = LayerBias(Co, has_bias, seed)
    /\ stride \in StrideValues
    /\ padding \in PaddingValues
    /\ ctx = EmptyCtx
    /\ output = None
    /\ grad_output = None
    /\ grads = None
    /\ calls = None
    /\ model = None /\ input = None /\ attack = None /\ entry = "none" /\ stack = <<>>
    /\ status = "idle" /\ result = None /\ before = None /\ evals = 0 /\ attacks = 0

\* CustomConv2DFunction.apply runs forward
Forward ==
    /\ pc = "call"
    /\ LET r == forward(ctx, input_feats, weight, bias, stride, padding)
       IN  /\ pc' = r.status
           /\ ctx' = r.ctx
           /\ output' = r.output
    /\ UNCHANGED <<input_feats, weight, bias, stride, padding, grad_output, grads, calls>>
    /\ UNCHANGED pgdVars

\* the upstream gradients tried: all ones, or pseudo-random
GradOutputs(shape) == {Ones(shape)} \cup {MkTensor(shape, seed, 4) : seed \in Seeds}

\* the autograd engine runs backward with an upstream gradient shaped like the
\* output; needs_input_grad says which of input, weight, bias require a gradient
Backward ==
    /\ pc = "returned"
    /\ \E g \in GradOutputs(output.shape), needs \in [1..3 -> BOOLEAN] :
          /\ (bias = None => ~needs[3])
          /\ grad_output' = g
          /\ ctx' = [ctx EXCEPT !.needs_input_grad = needs]
          /\ grads' = backward(ctx', g)
    /\ pc' = "done"
    /\ UNCHANGED <<input_feats, weight, bias, stride, padding, output, calls>>
    /\ UNCHANGED pgdVars

Next == Forward \/ Backward

Spec == Init /\ [][Next]_vars

--------------------------------------------------------------------------
\* Properties of the convolution operator

\* forward has run (whatever its outcome)
ForwardRan == pc # "call"

\* forward returned an output
ForwardReturned == pc \in {"returned", "done"}

\* the dimensions of the call
DimN == size(input_feats, 0)
DimCi == size(input_feats, 1)
DimH == size(input_feats, 2)
DimW == size(input_feats, 3)
DimCo == size(weight, 0)
DimK == size(weight, 2)

\* the preconditions of forward
Precondition ==
    /\ size(weight, 2) = size(weight, 3)
    /\ DimCi = size(weight, 1)
    /\ stride.type = "int" /\ stride.v > 0
    /\ padding.type = "int" /\ padding.v >= 0
    /\ DimK <= DimH + 2 * padding.v
    /\ DimK <= DimW + 2 * padding.v

\* floor((len + 2p - K) / s) + 1
ExpectedOut(len) == ((len + 2 * padding.v - DimK) \div stride.v) + 1

\* C1: a valid call (with a bias tensor) returns an output of shape
\* (N, C_o, floor((H+2p-K)/s)+1, floor((W+2p-K)/s)+1), and no output has another shape
C1_ShapeContract ==
    /\ (ForwardRan /\ Precondition /\ bias # None) => ForwardReturned
    /\ ForwardReturned =>
          output.shape = <<DimN, DimCo, ExpectedOut(DimH), ExpectedOut(DimW)>>

\* C1 witness: the degenerate case K = H = W, stride 1, padding 0, spatial dims (1, 1)
C1_Witness ==
    /\ pc = "returned"
    /\ DimK = MaxK /\ DimH = DimK /\ DimW = DimK
    /\ stride = PyInt(1) /\ padding = PyInt(0)
    /\ output.shape = <<DimN, DimCo, 1, 1>>

\* the direct dense convolution at [n, o, u, v], without the bias term
DirectConv(n, o, u, v) ==
    SumTo([c \in 0..(DimCi - 1) |->
        SumTo([a \in 0..(DimK - 1) |->
            SumTo([b \in 0..(DimK - 1) |->
                      At4(weight, o, c, a, b)
                      * Padded(input_feats, n, c,
                               u * stride.v + a - padding.v, v * stride.v + b - padding.v)],
                  DimK)],
            DimK)],
        DimCi)

\* C2: the output at [n, o, u, v] is bias[o] plus the direct dense convolution
C2_DirectConvolution ==
    ForwardReturned =>
        \A n \in 0..(size(output, 0) - 1), o \in 0..(size(output, 1) - 1),
           u \in 0..(size(output, 2) - 1), v \in 0..(size(output, 3) - 1) :
            At4(output, n, o, u, v) = bias.data[o] + DirectConv(n, o, u, v)

\* C2 witness: several channels, a kernel larger than 1, padding and more than one
\* output row and column, with a non-zero response
C2_Witness ==
    /\ pc = "returned"
    /\ DimCi > 1 /\ DimCo > 1 /\ DimK > 1 /\ padding.v > 0
    /\ size(output, 2) > 1 /\ size(output, 3) > 1
    /\ \E i \in DOMAIN output.data : output.data[i] # bias.data[(i \div (size(output, 2) * size(output, 3))) % DimCo]

\* d sum(G * output) / d input[n, c, h, w]
DirectGradInput(n, c, h, w) ==
    SumTo([o \in 0..(DimCo - 1) |->
        SumTo([k \in 0..(size(grad_output, 2) * size(grad_output, 3) - 1) |->
            LET u == k \div size(grad_output, 3)
                v == k % size(grad_output, 3)
            IN  SumTo([a \in 0..(DimK - 1) |->
                    SumTo([b \in 0..(DimK - 1) |->
                              IF /\ u * stride.v + a - padding.v = h
                                 /\ v * stride.v + b - padding.v = w
                              THEN At4(grad_output, n, o, u, v) * At4(weight, o, c, a, b)
                              ELSE 0],
                          DimK)],
                    DimK)],
            size(grad_output, 2) * size(grad_output, 3))],
        DimCo)

\* d sum(G * output) / d weight[o, c, a, b]
DirectGradWeight(o, c, a, b) ==
    SumTo([n \in 0..(DimN - 1) |->
        SumTo([u \in 0..(size(grad_output, 2) - 1) |->
            SumTo([v \in 0..(size(grad_output, 3) - 1) |->
                      At4(grad_output, n, o, u, v)
                      * Padded(input_feats, n, c,
                               u * stride.v + a - padding.v, v * stride.v + b - padding.v)],
                  size(grad_output, 3))],
            size(grad_output, 2))],
        DimN)

\* d sum(G * output) / d bias[o]
DirectGradBias(o) ==
    SumTo([n \in 0..(DimN - 1) |->
        SumTo([u \in 0..(size(grad_output, 2) - 1) |->
            SumTo([v \in 0..(size(grad_output, 3) - 1) |-> At4(grad_output, n, o, u, v)],
                  size(grad_output, 3))],
            size(grad_output, 2))],
        DimN)

\* C3: every gradient backward computes is the exact derivative of sum(G * output),
\* with the shape of the tensor it belongs to; for G of all ones grad_bias[o] is
\* N * H_out * W_out
C3_ExactGradients ==
    pc = "done" =>
        /\ grads[1] # None =>
              /\ grads[1].shape = input_feats.shape
              /\ \A n \in 0..(DimN - 1), c \in 0..(DimCi - 1),
                    h \in 0..(DimH - 1), w \in 0..(DimW - 1) :
                      At4(grads[1], n, c, h, w) = DirectGradInput(n, c, h, w)
        /\ grads[2] # None =>
              /\ grads[2].shape = weight.shape
              /\ \A o \in 0..(DimCo - 1), c \in 0..(DimCi - 1),
                    a \in 0..(DimK - 1), b \in 0..(DimK - 1) :
                      At4(grads[2], o, c, a, b) = DirectGradWeight(o, c, a, b)
        /\ grads[3] # None =>
              /\ grads[3].shape = bias.shape
              /\ \A o \in 0..(DimCo - 1) :
                    /\ grads[3].data[o] = DirectGradBias(o)
                    /\ grad_output = Ones(output.shape)
                         => grads[3].data[o] = DimN * size(output, 2) * size(output, 3)

\* C3 witness: all three gradients computed for a padded convolution whose windows
\* overlap (stride smaller than the kernel), with a batch of two and G of all ones
C3_Witness ==
    /\ pc = "done"
    /\ grads[1] # None /\ grads[2] # None /\ grads[3] # None
    /\ stride.v < DimK /\ padding.v > 0 /\ DimN > 1 /\ DimCi > 1 /\ DimCo > 1
    /\ size(output, 2) > 1 /\ size(output, 3) > 1
    /\ grad_output = Ones(output.shape)
    /\ grads[3].data[0] = 2 * size(output, 2) * size(output, 3)
    /\ \E i \in DOMAIN grads[1].data : grads[1].data[i] # 0

\* the pure contraction of patches with weights, shaped by the contract
PureContraction ==
    [shape |-> <<DimN, DimCo, ExpectedOut(DimH), ExpectedOut(DimW)>>,
     data |-> [i \in 0..(DimN * DimCo * ExpectedOut(DimH) * ExpectedOut(DimW) - 1) |->
        LET HW == ExpectedOut(DimH) * ExpectedOut(DimW)
        IN  DirectConv(i \div (DimCo * HW), (i \div HW) % DimCo,
                       (i \div ExpectedOut(DimW)) % ExpectedOut(DimH),
                       i % ExpectedOut(DimW))]]

\* C8: a valid call with an absent bias returns the pure contraction of patches with
\* weights, and backward then returns an absent grad_bias
C8_AbsentBiasSupported ==
    (ForwardRan /\ Precondition /\ bias = None) =>
        /\ ForwardReturned
        /\ output = PureContraction
        /\ pc = "done" => grads[3] = None

\* C9: backward returns a tensor exactly for the requested members of
\* {input, weight, bias} (grad_bias only when a bias was provided), None for the
\* others, and None for the stride and padding slots
C9_RequestedGradientsOnly ==
    pc = "done" =>
        /\ (grads[1] # None) <=> ctx.needs_input_grad[1]
        /\ (grads[2] # None) <=> ctx.needs_input_grad[2]
        /\ (grads[3] # None) <=> (ctx.needs_input_grad[3] /\ bias # None)
        /\ grads[4] = None
        /\ grads[5] = None

\* C9 witness: only the weight gradient is requested and only it is returned
C9_Witness ==
    /\ pc = "done"
    /\ ctx.needs_input_grad = [k \in 1..3 |-> k = 2]
    /\ grads[1] = None /\ grads[2] # None /\ grads[3] = None

\* C10: a call violating a precondition fails on an assertion, returns no output and
\* saves no tensors for backward
C10_FailsBeforeComputing ==
    (ForwardRan /\ ~Precondition) =>
        /\ pc = "AssertionError"
        /\ output = None
        /\ ctx.saved_tensors = None
        /\ grads = None

\* C10 witness: the kernel fits the padded height but not the padded width
C10_Witness ==
    /\ pc = "AssertionError"
    /\ stride.type = "int" /\ stride.v > 0 /\ padding.type = "int" /\ padding.v >= 0
    /\ size(weight, 2) = size(weight, 3) /\ DimCi = size(weight, 1)
    /\ DimK <= DimH + 2 * padding.v
    /\ DimK > DimW + 2 * padding.v
    /\ output = None /\ ctx.saved_tensors = None

--------------------------------------------------------------------------
\* Floating-point arithmetic of the image tensors.
\* Numbers are counted in units of 0.01; a float keeps MantBits significant bits,
\* and every arithmetic result is rounded to the nearest float, ties to even.

\* significant bits of the floating-point format
MantBits == 3

RECURSIVE Pow2(_)
Pow2(n) == IF n <= 0 THEN 1 ELSE 2 * Pow2(n - 1)

Abs(x) == IF x < 0 THEN -x ELSE x

RECURSIVE Quantum(_, _)
\* the spacing of the floats around magnitude m (q is the spacing tried)
Quantum(m, q) == IF m < Pow2(MantBits) * q THEN q ELSE Quantum(m, 2 * q)

\* the spacing of the floats at x
Spacing(x) == Quantum(Abs(x), 1)

\* the float nearest to the real number x
Round(x) ==
    LET m == Abs(x)
        q == Quantum(m, 1)
        r == m % q
        lo == m - r
        up == IF 2 * r > q \/ (2 * r = q /\ (lo \div q) % 2 = 1) THEN lo + q ELSE lo
    IN  IF x < 0 THEN -up ELSE up

\* torch.clamp(v, lo, hi) on one element
clamp_upperOnly(v, lo, hi) == IF v > hi THEN hi ELSE v

clamp(v, lo, hi) == IF v < lo THEN lo ELSE IF v > hi THEN hi ELSE v

--------------------------------------------------------------------------
\* PGDAttack and the networks it attacks

\* bound on num_steps of the caller's attack
MaxSteps == 2

\* PGDAttack.__init__ defaults: num_steps=10, step_size=0.01, epsilon=0.1
DefaultNumSteps == 10
DefaultStepSize == 1
DefaultEpsilon == 10

\* element counts and element values of the caller's image, step sizes and budgets tried
ImageSizes == {1, 2}
PixelValues == {5, 8}
StepSizes == {0, 1, 4}
Epsilons == {0, 3, 10}

\* networks whose forward embeds the attack (SimpleNet; SimpleNetBN2D has the same
\* forward) and one whose forward does not (MobileNet)
ModelKinds == {"SimpleNet", "MobileNet"}

\* Tensor.clone(): a new tensor with the same values; it is recorded in the autograd
\* graph (not a leaf) exactly when the source requires grad
clone_zeros(t) == [val |-> [k \in DOMAIN t.val |-> 0], requires_grad |-> t.requires_grad,
                   is_leaf |-> ~t.requires_grad, grad |-> None]

clone(t) == [val |-> t.val, requires_grad |-> t.requires_grad,
             is_leaf |-> ~t.requires_grad, grad |-> None]

\* input.requires_grad = False
DisableGrad_skipped(t) == t

DisableGrad(t) == [t EXCEPT !.requires_grad = FALSE]

\* self.training = True, after the attack inside forward
TrainingAfterAttack_stale == FALSE

TrainingAfterAttack == TRUE

\* loss.backward(): the gradient of one more backward pass is added to the .grad of the
\* model's parameters (param_grad counts the passes accumulated, None when there is no .grad)
AccumulateParamGrad(g) == IF g = None THEN <<1>> ELSE <<g[1] + 1>>

\* the tensor a frame's reference designates: 0 is the caller's image, k the working
\* sample (output) of the perturb frame at depth k
Deref(r) == IF r = 0 THEN input ELSE stack[r].output

Top == stack[Len(stack)]

SetTop(f) == [stack EXCEPT ![Len(stack)] = f]

PerturbFrame(num_steps, step_size, epsilon, ref) ==
    [kind |-> "perturb", pc |-> "begin", num_steps |-> num_steps, step_size |-> step_size,
     epsilon |-> epsilon, input_ref |-> ref, i |-> 0, output |-> None, pred |-> None]

ForwardFrame(ref) ==
    [kind |-> "forward", pc |-> "enter", x_ref |-> ref, replaced |-> FALSE]

InitPGD ==
    /\ pc = "unused" /\ input_feats = None /\ weight = None /\ bias = None
    /\ stride = None /\ padding = None /\ ctx = None /\ output = None
    /\ grad_output = None /\ grads = None /\ calls = None
    /\ \E kind \in ModelKinds, training \in BOOLEAN, pg \in {None, <<2>>} :
          model = [kind |-> kind, training |-> training, param_grad |-> pg]
    /\ \E D \in ImageSizes, rg \in BOOLEAN :
          \E val \in [1..D -> PixelValues], grad \in {None, [k \in 1..D |-> 1]} :
             /\ (~rg => grad = None)
             /\ input = [val |-> val, requires_grad |-> rg, is_leaf |-> TRUE, grad |-> grad]
    /\ entry \in {"perturb", "forward"}
    /\ IF entry = "perturb"
       THEN \E n \in 0..MaxSteps, a \in StepSizes, e \in Epsilons :
               attack = [num_steps |-> n, step_size |-> a, epsilon |-> e]
       ELSE attack = None
    /\ stack = <<>>
    /\ status = "idle"
    /\ result = None
    /\ before = [model |-> model, input |-> input]
    /\ evals = 0
    /\ attacks = 0


\* an exception propagates to the caller: every frame is unwound, nothing is restored
Raise(exc) ==
    /\ status' = exc
    /\ stack' = <<>>

\* the caller invokes attack.perturb(model, input) or model(input)
Call ==
    /\ pc = "unused"
    /\ status = "idle"
    /\ status' = "running"
    /\ stack' = IF entry = "perturb"
                THEN <<PerturbFrame(attack.num_steps, attack.step_size, attack.epsilon, 0)>>
                ELSE <<ForwardFrame(0)>>
    /\ UNCHANGED <<convVars, model, input, attack, entry, result, before, evals, attacks>>

\* perturb: output = input.clone(); input.requires_grad = False
PerturbBegin ==
    /\ status = "running"
    /\ Top.kind = "perturb" /\ Top.pc = "begin"
    /\ LET ref == Top.input_ref
           src == Deref(ref)
           started == SetTop([Top EXCEPT !.output = clone(src), !.pc = "loop"])
       IN  IF ~src.is_leaf /\ DisableGrad(src).requires_grad # src.requires_grad
           THEN \* the requires_grad flag of a non-leaf tensor cannot be changed
                Raise("RuntimeError") /\ UNCHANGED input
           ELSE /\ status' = status
                /\ IF ref = 0
                   THEN input' = DisableGrad(input) /\ stack' = started
                   ELSE /\ stack' = [started EXCEPT ![ref].output = DisableGrad(@)]
                        /\ UNCHANGED input
    /\ UNCHANGED <<convVars, model, attack, entry, result, before, evals, attacks>>

\* perturb, one iteration, first half: output.requires_grad = True; pred = model(output)
PerturbCallModel ==
    /\ status = "running"
    /\ Top.kind = "perturb" /\ Top.pc = "loop" /\ Top.i < Top.num_steps
    /\ stack' = Append(SetTop([Top EXCEPT !.output.requires_grad = TRUE, !.pc = "called"]),
                       ForwardFrame(Len(stack)))
    /\ evals' = IF \A k \in 1..(Len(stack) - 1) : stack[k].kind # "perturb"
                THEN evals + 1 ELSE evals
    /\ UNCHANGED <<convVars, model, input, attack, entry, status, result, before, attacks>>

\* SimpleNet.forward / SimpleNetBN2D.forward: if self.training, build a default
\* PGDAttack, set self.training = False and call pgd.perturb(self, x);
\* the other networks go straight to their layers
ForwardEnter ==
    /\ status = "running"
    /\ Top.kind = "forward" /\ Top.pc = "enter"
    /\ IF model.kind = "SimpleNet" /\ model.training
       THEN /\ model' = [model EXCEPT !.training = FALSE]
            /\ stack' = Append(SetTop([Top EXCEPT !.pc = "attacking"]),
                               PerturbFrame(DefaultNumSteps, DefaultStepSize, DefaultEpsilon,
                                            Top.x_ref))
            /\ attacks' = attacks + 1
       ELSE /\ stack' = SetTop([Top EXCEPT !.pc = "features"])
            /\ UNCHANGED <<model, attacks>>
    /\ UNCHANGED <<convVars, input, attack, entry, status, result, before, evals>>

\* SimpleNet.forward after pgd.perturb returned: x is the adversarial sample;
\* self.training = True
ForwardResume ==
    /\ status = "running"
    /\ Top.kind = "forward" /\ Top.pc = "attacked"
    /\ model' = [model EXCEPT !.training = TrainingAfterAttack]
    /\ stack' = SetTop([Top EXCEPT !.pc = "features"])
    /\ UNCHANGED <<convVars, input, attack, entry, status, result, before, evals, attacks>>

\* forward: features, pooling and classifier; the prediction is returned to the caller.
\* It depends on the caller's tensor unless forward replaced x by an adversarial sample.
ForwardFeatures ==
    /\ status = "running"
    /\ Top.kind = "forward" /\ Top.pc = "features"
    /\ IF Len(stack) = 1
       THEN /\ stack' = <<>>
            /\ status' = "returned"
       ELSE /\ stack' = [SubSeq(stack, 1, Len(stack) - 1) EXCEPT ![Len(stack) - 1] =
                            [@ EXCEPT !.pred = [depends |-> ~Top.replaced], !.pc = "backward"]]
            /\ status' = status
    /\ UNCHANGED <<convVars, model, input, attack, entry, result, before, evals, attacks>>

\* whether loss.backward() leaves a gradient in output.grad: output must be a leaf
\* that requires grad and that the prediction was computed from
HasGrad(f) == f.output.is_leaf /\ f.output.requires_grad /\ f.pred.depends

\* perturb, one iteration, second half: loss = loss_fn(pred, argmin(pred));
\* loss.backward(); output = output - step_size * sign(output.grad); output.detach_()
PerturbBackward ==
    /\ status = "running"
    /\ Top.kind = "perturb" /\ Top.pc = "backward"
    /\ model' = [model EXCEPT !.param_grad = AccumulateParamGrad(@)]
    /\ IF ~HasGrad(Top)
       THEN \* output.grad is None: torch.sign(None)
            Raise("TypeError")
       ELSE /\ status' = status
            /\ \E sign \in [DOMAIN Top.output.val -> {-1, 0, 1}] :
                  stack' = SetTop([Top EXCEPT
                      !.output = [val |-> [k \in DOMAIN sign |->
                                              Round(Top.output.val[k]
                                                    - Round(Top.step_size * sign[k]))],
                                  requires_grad |-> FALSE, is_leaf |-> TRUE, grad |-> None],
                      !.i = @ + 1, !.pred = None, !.pc = "loop"])
    /\ UNCHANGED <<convVars, input, attack, entry, result, before, evals, attacks>>

\* perturb after the loop: delta = clamp(output - input, -epsilon, epsilon);
\* output = input + delta; return output
Projected(f) ==
    LET src == Deref(f.input_ref)
    IN  [val |-> [k \in DOMAIN src.val |->
                     Round(src.val[k]
                           + clamp(Round(f.output.val[k] - src.val[k]), -f.epsilon, f.epsilon))],
         requires_grad |-> f.output.requires_grad \/ src.requires_grad,
         is_leaf |-> ~(f.output.requires_grad \/ src.requires_grad),
         grad |-> None]

PerturbFinish ==
    /\ status = "running"
    /\ Top.kind = "perturb" /\ Top.pc = "loop" /\ Top.i = Top.num_steps
    /\ IF Len(stack) = 1
       THEN /\ stack' = <<>>
            /\ status' = "returned"
            /\ result' = Projected(Top)
       ELSE /\ stack' = [SubSeq(stack, 1, Len(stack) - 1) EXCEPT ![Len(stack) - 1] =
                            [@ EXCEPT !.replaced = TRUE, !.pc = "attacked"]]
            /\ status' = status
            /\ result' = result
    /\ UNCHANGED <<convVars, model, input, attack, entry, before, evals, attacks>>

NextPGD ==
    \/ Call
    \/ PerturbBegin
    \/ PerturbCallModel
    \/ ForwardEnter
    \/ ForwardResume
    \/ ForwardFeatures
    \/ PerturbBackward
    \/ PerturbFinish

SpecPGD == InitPGD /\ [][NextPGD]_vars

--------------------------------------------------------------------------
\* Properties of the attack

\* a direct call attack.perturb(model, input) has returned
PerturbReturned == status = "returned" /\ entry = "perturb"

\* |returned element - input element|
Deviation(k) == Abs(result.val[k] - before.input.val[k])

C5_InputUntouched == PerturbReturned => input = before.input

\* C5 amended: after perturb returns the caller's input has the values and the stored
\* gradient it had before the call, and its requires_grad flag is False
C5_InputValuesKeptGradDisabled ==
    PerturbReturned =>
        /\ input.val = before.input.val
        /\ input.grad = before.input.grad
        /\ input.is_leaf = before.input.is_leaf
        /\ ~input.requires_grad

\* C5 witness: perturb returned for an input that required grad and had a stored gradient
C5_Witness ==
    /\ PerturbReturned
    /\ before.input.requires_grad /\ before.input.grad # None
    /\ ~input.requires_grad /\ input.grad = before.input.grad

\* C6: after perturb returns, with num_steps >= 1, the accumulated gradients of the
\* model's parameters and the rest of its training state are as before the call
C6_ModelStateUntouched ==
    (PerturbReturned /\ attack.num_steps >= 1) => model = before.model

\* C7: once the call has returned, the model's training flag has the value it had
\* before the call (a direct perturb call, or forward called in either mode)
C7_TrainingFlagRestored ==
    status = "returned" => model.training = before.model.training

\* C7 witness: SimpleNet.forward was called in training mode, ran its attack with the
\* flag switched off, and returned
C7_Witness ==
    /\ status = "returned" /\ entry = "forward"
    /\ model.kind = "SimpleNet" /\ before.model.training
    /\ attacks = 1 /\ evals = DefaultNumSteps
    /\ model.training

\* C12: a direct call of perturb with num_steps = 0, whatever epsilon >= 0 and step_size
\* are, never evaluates the model, raises nothing, and returns a tensor equal element
\* for element to the input
C12_ZeroStepsReturnsInput ==
    (entry = "perturb" /\ attack.num_steps = 0) =>
        /\ evals = 0 /\ attacks = 0
        /\ status \in {"idle", "running", "returned"}
        /\ (status = "returned" => result.val = before.input.val)

\* C12 witness: perturb returned the input's values with num_steps = 0, a positive
\* budget and a step larger than the budget
C12_Witness ==
    /\ PerturbReturned
    /\ attack.num_steps = 0 /\ attack.epsilon > 0 /\ attack.step_size > attack.epsilon
    /\ evals = 0
    /\ result.val = before.input.val

\* C13: during a direct call of perturb, after each gradient-sign step every element of
\* the working sample differs from the corresponding input element by at most epsilon
C13_AlwaysWithinEpsilon ==
    (entry = "perturb" /\ status = "running" /\ stack[1].pc # "begin" /\ stack[1].i >= 1) =>
        \A k \in DOMAIN input.val :
            Abs(stack[1].output.val[k] - input.val[k]) <= attack.epsilon

\* C14: perturb called on a SimpleNet whose training flag is on starts no PGD attack
\* inside the model's forward, raises nothing, and has run exactly num_steps model
\* evaluations when it returns
C14_NoNestedAttack ==
    (entry = "perturb" /\ model.kind = "SimpleNet" /\ before.model.training) =>
        /\ attacks = 0
        /\ status \in {"idle", "running", "returned"}
        /\ (status = "returned" => evals = attack.num_steps)


--------------------------------------------------------------------------
\* Two invocations of the same CustomConv2d layer

\* the two invocations
CallIds == {"A", "B"}

\* CustomConv2DFunction.apply hands every invocation a context of its own: the
\* context an invocation's forward writes and its backward reads
CtxSlot_shared(id) == "A"

CtxSlot(id) == id

\* ctx.needs_input_grad when input, weight and (if there is one) bias require grad
AllNeeded(b) == [k \in 1..3 |-> k < 3 \/ b # None]

\* the upstream gradient handed to an invocation's backward
UpstreamOf(id, shape) == MkTensor(shape, IF id = "A" THEN 0 ELSE 1, 4)

\* a layer with a bias (weight, bias, stride, padding fixed at construction) and two
\* inputs of different contents and possibly different sizes, about to be passed
\* through it; A is one square image, B a batch of any size
InitPair ==
    /\ pc = "unused" /\ input_feats = None /\ weight = None /\ bias = None
    /\ stride = None /\ padding = None /\ ctx = None /\ output = None
    /\ grad_output = None /\ grads = None
    /\ model = None /\ input = None /\ attack = None /\ entry = "none" /\ stack = <<>>
    /\ status = "idle" /\ result = None /\ before = None /\ evals = 0 /\ attacks = 0
    /\ \E C \in ChannelCounts, K \in 1..MaxK, s \in {1, MaxStride}, p \in {0, MaxPad},
          HA \in 1..MaxHW,
          NB \in BatchSizes, HB \in 1..MaxHW, WB \in 1..MaxHW :
            calls = [weight |-> MkTensor(<<C, C, K, K>>, 0, 2),
                     bias |-> LayerBias(C, TRUE, 0),
                     stride |-> PyInt(s),
                     padding |-> PyInt(p),
                     input |-> [id \in CallIds |->
                                   IF id = "A" THEN MkTensor(<<1, C, HA, HA>>, 0, 1)
                                   ELSE MkTensor(<<NB, C, HB, WB>>, 1, 1)],
                     pc |-> [id \in CallIds |-> "call"],
                     ctx |-> [id \in CallIds |-> EmptyCtx],
                     output |-> [id \in CallIds |-> None],
                     grad_output |-> [id \in CallIds |-> None],
                     grads |-> [id \in CallIds |-> None]]

\* CustomConv2d.forward: custom_conv2d(input, self.weight, self.bias, self.stride,
\* self.padding), run with a fresh context
PairForward(id) ==
    /\ calls # None
    /\ calls.pc[id] = "call"
    /\ LET r == forward(EmptyCtx, calls.input[id], calls.weight, calls.bias,
                        calls.stride, calls.padding)
       IN  calls' = [calls EXCEPT !.pc[id] = r.status,
                                  !.ctx[CtxSlot(id)] = r.ctx,
                                  !.output[id] = r.output]
    /\ UNCHANGED <<pc, input_feats, weight, bias, stride, padding, ctx, output,
                   grad_output, grads>>
    /\ UNCHANGED pgdVars

\* whether the einsum, view and fold of backward accept the context's tensors
\* together with this upstream gradient (they raise on mismatching sizes)
SizesAgree(c, g) ==
    /\ c.saved_tensors # None
    /\ LET windows == c.saved_tensors[1]
           K == size(c.saved_tensors[2], 2)
       IN  /\ size(g, 0) = c.batch_size
           /\ windows.shape[1] = c.batch_size
           /\ windows.shape[3] = size(g, 2) * size(g, 3)
           /\ BlockCount(c.input_height, K, c.padding, c.stride)
                * BlockCount(c.input_width, K, c.padding, c.stride) = size(g, 2) * size(g, 3)

\* the autograd engine runs the backward of one invocation with that invocation's context
PairBackward(id) ==
    /\ calls # None
    /\ calls.pc[id] = "returned"
    /\ LET g == UpstreamOf(id, calls.output[id].shape)
           c == [calls.ctx[CtxSlot(id)] EXCEPT !.needs_input_grad = AllNeeded(calls.bias)]
       IN  IF ~SizesAgree(c, g)
           THEN calls' = [calls EXCEPT !.pc[id] = "RuntimeError", !.grad_output[id] = g]
           ELSE calls' = [calls EXCEPT !.pc[id] = "done",
                                       !.ctx[CtxSlot(id)] = c,
                                       !.grad_output[id] = g,
                                       !.grads[id] = backward(c, g)]
    /\ UNCHANGED <<pc, input_feats, weight, bias, stride, padding, ctx, output,
                   grad_output, grads>>
    /\ UNCHANGED pgdVars

NextPair == \E id \in CallIds : PairForward(id) \/ PairBackward(id)

SpecPair == InitPair /\ [][NextPair]_vars

\* what forward returns for the invocation when it is the only one
SoloForward(id) ==
    forward(EmptyCtx, calls.input[id], calls.weight, calls.bias, calls.stride, calls.padding)

\* what backward returns for the invocation when it is the only one
SoloGrads(id) ==
    backward([SoloForward(id).ctx EXCEPT !.needs_input_grad = AllNeeded(calls.bias)],
             UpstreamOf(id, SoloForward(id).output.shape))

====
